---- MODULE Spec2Model ----
(***************************************************************************)
(* Model of usePageTransition                                              *)
(* (src/src/components/TransitionWrapper/service.ts).                      *)
(*                                                                         *)
(* The hook keeps two React states (isTransitioning, isEntering), two refs *)
(* (pendingPathRef, isFirstMount), observes the router's pathname and      *)
(* installs three kinds of listeners from effects: the document click      *)
(* listener, the exit animationend listener (which closes over targetPath) *)
(* and the entry animationend listener.  One action is one event handler   *)
(* followed by the re-render and the effects that the handler's state      *)
(* updates cause.                                                          *)
(*                                                                         *)
(* Strings that the code compares as text (link.href, location.origin)    *)
(* are sequences of tokens; a host or a port is one token per character,   *)
(* so that a prefix test on tokens is the prefix test on characters.       *)
(***************************************************************************)
EXTENDS Naturals, Sequences, FiniteSets

VARIABLES
  mounted,          \* the component has mounted and its effects have run
  pathname,         \* usePathname(): the router's current path
  isTransitioning,  \* useState: the exiting phase (the spec's isExiting)
  isEntering,       \* useState: the entering phase
  pendingPathRef,   \* useRef: the spec's PendingTarget
  isFirstMount,     \* useRef: the spec's MountPhase
  exitTarget,       \* targetPath closed over by the attached exit listener, or Null
  entryListener,    \* the entry animationend listener is attached
  navQueue,         \* router.push requests not yet committed by the router
  clicked,          \* history: destination of the last intercepted click
  phaseTarget,      \* history: destination of the click that began the exiting phase
  ev                \* history: the event handled by the last step

vars == <<mounted, pathname, isTransitioning, isEntering, pendingPathRef,
          isFirstMount, exitTarget, entryListener, navQueue, clicked, phaseTarget, ev>>

\* Largest number of router.push requests awaiting the router.
MaxNav == 2

Null == "null"

SLIDE_OUT == "maskFadeOut"
SLIDE_IN == "maskFadeIn"

\* Animation names the animation collaborator can report.
AnimationNames == {SLIDE_OUT, SLIDE_IN, "other"}

\* Paths of the application.
Paths == {"/", "/a", "/b"}

----------------------------------------------------------------------------
\* URLs: a link's destination as the parts the URL standard distinguishes.

Schemes == {<<"http">>, <<"https">>}
Hosts == {<<"e", "x">>, <<"e", "x", "y">>, <<"z">>}
Ports == {<<>>, <<"8">>}
UserInfos == {<<>>, <<"u@">>}
Suffixes == {<<>>, <<"?q">>, <<"#h">>}

AllUrls ==
  [scheme : Schemes, userinfo : UserInfos, host : Hosts, port : Ports,
   path : Paths, suffix : Suffixes]

\* How many parts of a URL differ from the plain link http://ex/path.
Deviations(u) ==
  (IF u.scheme = <<"http">> THEN 0 ELSE 1) + (IF u.userinfo = <<>> THEN 0 ELSE 1)
    + (IF u.host = <<"e", "x">> THEN 0 ELSE 1) + (IF u.port = <<>> THEN 0 ELSE 1)
    + (IF u.suffix = <<>> THEN 0 ELSE 1)

\* The links of the pages: every path, and at most one other part that
\* differs from the plain link.
Urls == {u \in AllUrls : Deviations(u) <= 1}

\* scheme://host[:port], the origin of a URL (userinfo is no part of it).
OriginOf(u) ==
  u.scheme \o <<"://">> \o u.host
    \o (IF u.port = <<>> THEN <<>> ELSE <<":">> \o u.port)

\* HTMLAnchorElement.href: the serialised absolute URL.
Href(u) ==
  u.scheme \o <<"://">> \o u.userinfo \o u.host
    \o (IF u.port = <<>> THEN <<>> ELSE <<":">> \o u.port)
    \o <<u.path>> \o u.suffix

\* window.location.origin: the document is served from http://ex.
origin ==
  OriginOf([scheme |-> <<"http">>, userinfo |-> <<>>, host |-> <<"e", "x">>,
            port |-> <<>>, path |-> "/", suffix |-> <<>>])

\* Position of the path in a serialised URL.
PathIdx(href) == CHOOSE i \in 1..Len(href) : href[i] \in Paths

\* new URL(href).pathname
UrlPathname(href) == href[PathIdx(href)]

\* new URL(href).origin
UrlOrigin(href) ==
  LET NotUserInfo(t) == t # "u@"
  IN  SelectSeq(SubSeq(href, 1, PathIdx(href) - 1), NotUserInfo)

\* String.prototype.startsWith
StartsWith(s, prefix) ==
  /\ Len(prefix) <= Len(s)
  /\ SubSeq(s, 1, Len(prefix)) = prefix

\* What a click can land on: no enclosing <a>, an <a> without href, or a link.
NoLink == [hasLink |-> FALSE, href |-> <<>>]
ClickTargets ==
  {NoLink, [hasLink |-> TRUE, href |-> <<>>]}
    \cup {[hasLink |-> TRUE, href |-> Href(u)] : u \in Urls}

----------------------------------------------------------------------------
\* The hook's pure helpers.

isSameOriginLink(href) == StartsWith(href, origin)

\* isNavigableLink without the comparison with the current path.
isNavigableLink_NoPathTest(href, pn) ==
  href # <<>> /\ isSameOriginLink(href)

isNavigableLink(href, pn) ==
  IF href = <<>> \/ ~isSameOriginLink(href)
  THEN FALSE
  ELSE UrlPathname(href) # pn

\* The handler's test without e.target === e.currentTarget.
AnimationEndMatches_AnyTarget(name, onSelf, animationName) ==
  name = animationName

\* The handler's test without e.animationName === animationName.
AnimationEndMatches_AnyName(name, onSelf, animationName) ==
  onSelf

\* The test of the handler createAnimationEndHandler(animationName, _) returns.
AnimationEndMatches(name, onSelf, animationName) ==
  name = animationName /\ onSelf

\* The pathname effect without the isFirstMount gate.
EnteringAfterPathname_NoGate(first, entering) == TRUE

\* The pathname effect without setIsTransitioning(false).
TransitioningAfterPathname_Keep(first, transitioning) == transitioning

\* The pathname effect: the values it gives isEntering and isTransitioning.
EnteringAfterPathname(first, entering) == IF ~first THEN TRUE ELSE entering

TransitioningAfterPathname(first, transitioning) ==
  IF ~first THEN FALSE ELSE transitioning

\* The exit effect without its cleanup: a listener once attached stays.
ExitEffect_NoCleanup(oldT, newT, pending, oldTarget) ==
  IF newT = oldT THEN oldTarget
  ELSE IF ~newT \/ pending = Null THEN oldTarget
  ELSE pending

\* The exit effect re-run after every render, reading pendingPathRef anew.
ExitEffect_EveryRender(oldT, newT, pending, oldTarget) ==
  IF ~newT \/ pending = Null THEN Null ELSE pending

\* The exit animationend effect (deps: isTransitioning): what the listener
\* attached after the render closes over, Null when none is attached.
ExitEffect(oldT, newT, pending, oldTarget) ==
  IF newT = oldT THEN oldTarget
  ELSE IF ~newT \/ pending = Null THEN Null
  ELSE pending

\* The entry animationend effect (deps: isEntering): is the listener attached.
EntryEffect(entering) == entering

\* The entry listener's onComplete without pendingPathRef.current = null.
PendingAfterEntry_Keep(pending) == pending

\* The entry listener's onComplete: the value it leaves in pendingPathRef.
PendingAfterEntry(pending) == Null

NoEvent ==
  [type |-> "none", hasLink |-> FALSE, href |-> <<>>, prevented |-> FALSE,
   stopped |-> FALSE, name |-> "", onSelf |-> FALSE]

----------------------------------------------------------------------------
Init ==
  /\ mounted = FALSE
  /\ pathname \in Paths
  /\ isTransitioning = FALSE
  /\ isEntering = FALSE
  /\ pendingPathRef = Null
  /\ isFirstMount = TRUE
  /\ exitTarget = Null
  /\ entryListener = FALSE
  /\ navQueue = <<>>
  /\ clicked = Null
  /\ phaseTarget = Null
  /\ ev = NoEvent

\* The effects that run after a render in which pathname changed (or the
\* first render): the pathname effect, then the two animationend effects.
PathnameEffects ==
  /\ isEntering' = EnteringAfterPathname(isFirstMount, isEntering)
  /\ isTransitioning' = TransitioningAfterPathname(isFirstMount, isTransitioning)
  /\ isFirstMount' = FALSE
  /\ exitTarget' = ExitEffect(isTransitioning, isTransitioning', pendingPathRef, exitTarget)
  /\ entryListener' = EntryEffect(isEntering')
  /\ phaseTarget' = IF isTransitioning' THEN phaseTarget ELSE Null
  /\ UNCHANGED pendingPathRef

\* First render and its effects.
Mount ==
  /\ ~mounted
  /\ mounted' = TRUE
  /\ PathnameEffects
  /\ ev' = [NoEvent EXCEPT !.type = "mount"]
  /\ UNCHANGED <<pathname, navQueue, clicked>>

\* handleClick, then the render and effects its state update causes.
Click(t) ==
  LET intercept == t.hasLink /\ isNavigableLink(t.href, pathname)
  IN  /\ mounted
      /\ pendingPathRef' = IF intercept THEN UrlPathname(t.href) ELSE pendingPathRef
      /\ isTransitioning' = IF intercept THEN TRUE ELSE isTransitioning
      /\ clicked' = IF intercept THEN UrlPathname(t.href) ELSE clicked
      /\ phaseTarget' = IF intercept /\ ~isTransitioning THEN UrlPathname(t.href)
                        ELSE phaseTarget
      /\ exitTarget' = ExitEffect(isTransitioning, isTransitioning', pendingPathRef', exitTarget)
      /\ ev' = [NoEvent EXCEPT !.type = "click", !.hasLink = t.hasLink, !.href = t.href,
                               !.prevented = intercept, !.stopped = intercept]
      /\ UNCHANGED <<mounted, pathname, isEntering, isFirstMount,
                     entryListener, navQueue>>

\* An animationend event reaching the wrapper element: both listeners, when
\* attached, see it.
AnimationEnd(name, onSelf) ==
  LET exitFires == exitTarget # Null /\ AnimationEndMatches(name, onSelf, SLIDE_OUT)
      entryFires == entryListener /\ AnimationEndMatches(name, onSelf, SLIDE_IN)
  IN  /\ mounted
      /\ exitFires => Len(navQueue) < MaxNav
      /\ navQueue' = IF exitFires THEN Append(navQueue, exitTarget) ELSE navQueue
      /\ isEntering' = IF entryFires THEN FALSE ELSE isEntering
      /\ pendingPathRef' = IF entryFires THEN PendingAfterEntry(pendingPathRef)
                           ELSE pendingPathRef
      /\ entryListener' = EntryEffect(isEntering')
      /\ ev' = [NoEvent EXCEPT !.type = "animationend", !.name = name, !.onSelf = onSelf]
      /\ UNCHANGED <<mounted, pathname, isTransitioning, isFirstMount,
                     exitTarget, clicked, phaseTarget>>

\* The render after usePathname() returns a new value.
PathChange(p) ==
  /\ pathname' = p
  /\ IF p # pathname
     THEN PathnameEffects
     ELSE UNCHANGED <<isEntering, isTransitioning, isFirstMount, exitTarget,
                      entryListener, pendingPathRef, phaseTarget>>

\* The router commits the oldest router.push request.
RouterCommit ==
  /\ mounted
  /\ navQueue # <<>>
  /\ PathChange(Head(navQueue))
  /\ navQueue' = Tail(navQueue)
  /\ ev' = [NoEvent EXCEPT !.type = "push"]
  /\ UNCHANGED <<mounted, clicked>>

\* A path change the controller did not request (history back/forward, or a
\* navigation by a link it let through).
ExternalNav(p) ==
  /\ mounted
  /\ p # pathname
  /\ PathChange(p)
  /\ ev' = [NoEvent EXCEPT !.type = "external"]
  /\ UNCHANGED <<mounted, navQueue, clicked>>

Next ==
  \/ Mount
  \/ \E t \in ClickTargets : Click(t)
  \/ \E n \in AnimationNames, s \in BOOLEAN : AnimationEnd(n, s)
  \/ RouterCommit
  \/ \E p \in Paths : ExternalNav(p)

Spec == Init /\ [][Next]_vars

TypeOK ==
  /\ mounted \in BOOLEAN
  /\ pathname \in Paths
  /\ isTransitioning \in BOOLEAN
  /\ isEntering \in BOOLEAN
  /\ pendingPathRef \in Paths \cup {Null}
  /\ isFirstMount \in BOOLEAN
  /\ exitTarget \in Paths \cup {Null}
  /\ entryListener \in BOOLEAN
  /\ Len(navQueue) <= MaxNav
  /\ clicked \in Paths \cup {Null}
  /\ phaseTarget \in Paths \cup {Null}

----------------------------------------------------------------------------
\* The round trip of one navigation: one click from the idle state, no path
\* change other than the router's, and every matching animationend event and
\* every requested navigation eventually delivered.

ClickLive(t) ==
  /\ clicked = Null
  /\ ~isTransitioning /\ ~isEntering
  /\ Click(t)

NextLive ==
  \/ Mount
  \/ \E t \in ClickTargets : ClickLive(t)
  \/ \E n \in AnimationNames, s \in BOOLEAN : AnimationEnd(n, s)
  \/ RouterCommit

Fairness ==
  /\ WF_vars(AnimationEnd(SLIDE_OUT, TRUE))
  /\ WF_vars(AnimationEnd(SLIDE_IN, TRUE))
  /\ WF_vars(RouterCommit)

LiveSpec == Init /\ [][NextLive]_vars /\ Fairness

\* Any number of clicks in any phase, and no path change other than the
\* router's commit of a navigation the controller requested.
NextRouter ==
  \/ Mount
  \/ \E t \in ClickTargets : Click(t)
  \/ \E n \in AnimationNames, s \in BOOLEAN : AnimationEnd(n, s)
  \/ RouterCommit

RouterSpec == Init /\ [][NextRouter]_vars /\ Fairness

----------------------------------------------------------------------------
\* Vocabulary of the properties.

\* The last step handled a click on a link that has a destination.
LinkClicked(e) == e.type = "click" /\ e.hasLink /\ e.href # <<>>

\* Same origin as the URL standard defines it: scheme, host and port.
SameOrigin(href) == UrlOrigin(href) = origin

\* The link's URL carries a query or a fragment.
HasSuffix(href) == Len(href) > PathIdx(href)

Idle == ~isTransitioning /\ ~isEntering /\ pendingPathRef = Null

ControllerState == <<isTransitioning, isEntering, pendingPathRef>>

----------------------------------------------------------------------------
\* C1: every click on a same-origin link whose path differs from the current
\* path is cancelled (default prevented, propagation stopped), records its
\* path in PendingTarget and leaves isExiting true, in one update that touches
\* nothing else.
C1_SameOriginClickIntercepted ==
  [][(LinkClicked(ev') /\ SameOrigin(ev'.href) /\ UrlPathname(ev'.href) # pathname)
       => /\ ev'.prevented /\ ev'.stopped
          /\ pendingPathRef' = UrlPathname(ev'.href)
          /\ isTransitioning'
          /\ UNCHANGED <<isEntering, pathname, navQueue>>]_vars

\* C1 restricted to links whose URL has no userinfo: these are intercepted.
C1_PlainSameOriginClickIntercepted ==
  [][(LinkClicked(ev') /\ SameOrigin(ev'.href) /\ StartsWith(ev'.href, origin)
        /\ UrlPathname(ev'.href) # pathname)
       => /\ ev'.prevented /\ ev'.stopped
          /\ pendingPathRef' = UrlPathname(ev'.href)
          /\ isTransitioning'
          /\ UNCHANGED <<isEntering, pathname, navQueue>>]_vars

\* C2: whenever the exit listener requests a navigation, the path it passes to
\* router.push is the value PendingTarget holds at that moment.
C2_PushesPendingTarget ==
  [][Len(navQueue') > Len(navQueue)
       => navQueue'[Len(navQueue')] = pendingPathRef]_vars

\* C3: a click on a link of another origin is never cancelled and changes
\* none of isExiting, isEntering, PendingTarget.
C3_CrossOriginClickIgnored ==
  [][(LinkClicked(ev') /\ ~SameOrigin(ev'.href))
       => /\ ~ev'.prevented /\ ~ev'.stopped
          /\ UNCHANGED ControllerState]_vars

\* C4: a click outside any link, or on a link whose path is the current path
\* (whatever its query or fragment), is not cancelled and changes none of
\* isExiting, isEntering, PendingTarget.
C4_NonNavigableClickIgnored ==
  [][(ev'.type = "click"
        /\ (~ev'.hasLink \/ (ev'.href # <<>> /\ UrlPathname(ev'.href) = pathname)))
       => /\ ~ev'.prevented /\ ~ev'.stopped
          /\ UNCHANGED ControllerState]_vars

\* A same-origin link to the current path with a query or fragment was
\* clicked during the exiting phase and let through.
C4_Witness ==
  /\ LinkClicked(ev) /\ SameOrigin(ev.href) /\ HasSuffix(ev.href)
  /\ UrlPathname(ev.href) = pathname
  /\ isTransitioning /\ pendingPathRef # Null
  /\ ~ev.prevented

\* C5: isExiting and isEntering are never both true.
C5_NeverExitingAndEntering == ~(isTransitioning /\ isEntering)

\* C6: handling the matching entry-animation-complete event (maskFadeIn on the
\* wrapper itself, entry listener attached) leaves the system idle.
C6_EntryCompleteReachesIdle ==
  [][(ev'.type = "animationend" /\ ev'.name = SLIDE_IN /\ ev'.onSelf /\ entryListener)
       => (~isTransitioning' /\ ~isEntering' /\ pendingPathRef' = Null)]_vars

\* C7 as written: an animationend event that is not maskFadeOut on the wrapper
\* itself requests no navigation and changes none of isExiting, isEntering,
\* PendingTarget.
C7_NonExitEventChangesNothing ==
  [][(ev'.type = "animationend" /\ (ev'.name # SLIDE_OUT \/ ~ev'.onSelf))
       => (navQueue' = navQueue /\ UNCHANGED ControllerState)]_vars

\* C7 amended: such an event requests no navigation, and unless it is the
\* entry event (maskFadeIn on the wrapper itself) it changes none of isExiting,
\* isEntering, PendingTarget.
C7_NonMatchingEventFiltered ==
  [][(ev'.type = "animationend" /\ (ev'.name # SLIDE_OUT \/ ~ev'.onSelf))
       => /\ navQueue' = navQueue
          /\ ~(ev'.name = SLIDE_IN /\ ev'.onSelf) => UNCHANGED ControllerState]_vars

\* A maskFadeOut event bubbled from a descendant was delivered while the exit
\* listener was attached, and no navigation has been requested.
C7_Witness ==
  /\ ev.type = "animationend" /\ ev.name = SLIDE_OUT /\ ~ev.onSelf
  /\ exitTarget # Null /\ isTransitioning
  /\ navQueue = <<>> /\ pathname # exitTarget

\* C8: the first mount leaves isEntering false whatever the initial path and
\* only flips MountPhase, which never flips back; isEntering becomes true only
\* on a later change of CurrentPath.
C8_NoEntryOnFirstMount ==
  [][/\ ~mounted => (~isEntering' /\ ~isTransitioning' /\ pendingPathRef' = Null
                      /\ pathname' = pathname /\ (mounted' => ~isFirstMount'))
     /\ ~isFirstMount => ~isFirstMount'
     /\ (isEntering' /\ ~isEntering) => (mounted /\ pathname' # pathname)]_vars

\* The component has just mounted on a path other than the root.
C8_Witness ==
  /\ ev.type = "mount" /\ mounted /\ pathname = "/a"
  /\ ~isFirstMount /\ ~isEntering

\* C9: after the one intercepted click to path q, the system eventually is at
\* CurrentPath = q and idle.
C9_RoundTripCompletes ==
  \A q \in Paths : (clicked = q) ~> (pathname = q /\ Idle)

\* The round trip has completed.
C9_Witness ==
  /\ clicked # Null /\ pathname = clicked /\ Idle
  /\ ev.type = "animationend" /\ ev.name = SLIDE_IN

\* C10: PendingTarget is non-null only while isExiting or isEntering.
C10_PendingOnlyInFlight ==
  pendingPathRef # Null => (isTransitioning \/ isEntering)

\* The swap has happened: entering with the target still recorded.
C10_Witness ==
  /\ pendingPathRef # Null /\ isEntering /\ ~isTransitioning
  /\ pathname = pendingPathRef

\* The last step handled the matching exit event with the exit listener
\* attached.
ExitCompleteHandled ==
  /\ ev'.type = "animationend" /\ ev'.name = SLIDE_OUT /\ ev'.onSelf
  /\ exitTarget # Null

\* The step issued a router.push.
Pushed == Len(navQueue') > Len(navQueue)

\* C11: router.push is called only by the handling of a matching
\* exit-animation-complete event, and isEntering becomes true only in a step
\* in which CurrentPath changes.
C11_PushOnlyOnExitComplete ==
  [][/\ Pushed => (ExitCompleteHandled /\ isTransitioning)
     /\ (isEntering' /\ ~isEntering)
          => (ev'.type \in {"push", "external"} /\ pathname' # pathname)]_vars

\* A navigation has been requested by the exit event and committed by the
\* router, which began the entering phase.
C11_Witness ==
  /\ ev.type = "push" /\ isEntering /\ pathname = clicked
  /\ navQueue = <<>>

\* C12: every change of CurrentPath after the first mount leaves isEntering
\* true and isExiting false and does not touch PendingTarget.
C12_PathChangeStartsEntering ==
  [][(mounted /\ pathname' # pathname)
       => (isEntering' /\ ~isTransitioning' /\ UNCHANGED pendingPathRef)]_vars

\* A path change the controller did not request arrived during the exiting
\* phase.
C12_Witness ==
  /\ ev.type = "external" /\ isEntering /\ ~isTransitioning
  /\ pendingPathRef # Null /\ pendingPathRef # pathname

\* C13: handling the matching exit event only requests the navigation:
\* isExiting was and stays true, isEntering and PendingTarget are unchanged.
C13_ExitCompleteOnlyNavigates ==
  [][ExitCompleteHandled
       => /\ isTransitioning /\ isTransitioning'
          /\ UNCHANGED <<isEntering, pendingPathRef, pathname>>
          /\ navQueue' = Append(navQueue, exitTarget)]_vars

\* The navigation has been requested and the controller is still exiting
\* with its target recorded.
C13_Witness ==
  /\ ev.type = "animationend" /\ ev.name = SLIDE_OUT /\ ev.onSelf
  /\ navQueue # <<>> /\ isTransitioning /\ pendingPathRef # Null

\* The step delivered the matching exit event (maskFadeOut on the wrapper).
ExitEventDelivered ==
  ev'.type = "animationend" /\ ev'.name = SLIDE_OUT /\ ev'.onSelf

\* C14 as written: from an exiting state, a step that does not deliver the
\* matching exit event requests no navigation and leaves isExiting true.
C14_ExitingUntilExitComplete ==
  [][(isTransitioning /\ ~ExitEventDelivered)
       => (~Pushed /\ isTransitioning')]_vars

\* C14 amended: such a step requests no navigation, and it leaves isExiting
\* true unless it changes CurrentPath.
C14_ExitingUntilExitCompleteOrPathChange ==
  [][(isTransitioning /\ ~ExitEventDelivered)
       => (~Pushed /\ (isTransitioning' \/ pathname' # pathname))]_vars

\* A non-matching animationend event was delivered during the exiting phase:
\* still exiting, nothing requested.
C14_Witness ==
  /\ ev.type = "animationend" /\ ev.name = "other" /\ ev.onSelf
  /\ isTransitioning /\ ~isEntering /\ exitTarget # Null
  /\ navQueue = <<>>

\* C15: the exit listener is attached exactly when isExiting, the entry
\* listener exactly when isEntering; in particular none is attached when idle.
C15_ListenersFollowState ==
  /\ (exitTarget # Null) <=> isTransitioning
  /\ entryListener <=> isEntering

\* A transition has run to its end and both listeners are released.
C15_Witness ==
  /\ ev.type = "animationend" /\ ev.name = SLIDE_IN /\ ev.onSelf
  /\ ~isTransitioning /\ ~isEntering
  /\ exitTarget = Null /\ ~entryListener
  /\ clicked # Null

\* C16: every path passed to router.push is the destination of the click that
\* took isExiting from false to true for the current exiting phase.
C16_PushesPhaseTarget ==
  [][Pushed => navQueue'[Len(navQueue')] = phaseTarget]_vars

\* The navigation was requested after a later click of the same phase had
\* recorded another destination.
C16_Witness ==
  /\ ev.type = "animationend" /\ ev.name = SLIDE_OUT /\ ev.onSelf
  /\ navQueue # <<>> /\ navQueue[Len(navQueue)] = phaseTarget
  /\ isTransitioning /\ clicked # phaseTarget /\ pendingPathRef = clicked

\* C17, on the states in which nothing is left to happen (not exiting, not
\* entering, no navigation outstanding): CurrentPath is the destination of
\* the last intercepted click.
C17_NoInterceptedClickLost ==
  (clicked # Null /\ ~isTransitioning /\ ~isEntering /\ navQueue = <<>>)
    => pathname = clicked

\* C18: every path passed to router.push differs from CurrentPath at that
\* moment; the exit listener's target is never the current path, so a
\* navigation the router drops as a no-op during the exiting phase is never
\* the one the phase is waiting for.
C18_PushDiffersFromCurrentPath ==
  [][/\ Pushed => navQueue'[Len(navQueue')] # pathname
     /\ exitTarget' # Null => exitTarget' # pathname'
     /\ (ev'.type = "push" /\ pathname' = pathname /\ isTransitioning')
          => Head(navQueue) # exitTarget']_vars

\* Two navigations are outstanding, neither to the current path.
C18_Witness ==
  /\ ev.type = "animationend" /\ ev.name = SLIDE_OUT /\ ev.onSelf
  /\ Len(navQueue) = 2
  /\ navQueue[1] # pathname /\ navQueue[2] # pathname

\* C19: isExiting implies that PendingTarget is non-empty.
C19_ExitingHasPendingTarget ==
  isTransitioning => pendingPathRef # Null

====
